---- MODULE Spec2Model ----
(***************************************************************************)
(* A model of fireshape/innerproduct.py: the class InnerProduct, its three *)
(* variants (H1InnerProduct, LaplaceInnerProduct, ElasticityInnerProduct)  *)
(* and the three operations get_impl, eval and riesz_map.                  *)
(*                                                                         *)
(* An instance is the tuple of its attributes.  An attribute that has not  *)
(* been assigned yet is Absent; reading it raises AttributeError, as in    *)
(* Python.  Python's None and an absent attribute are both written <<>>,   *)
(* a present value x is written <<x>>.                                     *)
(*                                                                         *)
(* Matrices are sequences of rows with integer entries, so that            *)
(* transpose(I)*A*I and the zero-row test are computed exactly.  Vector    *)
(* fields of a nullspace are affine fields x |-> M x + c.                  *)
(***************************************************************************)
EXTENDS Integers, Sequences, FiniteSets, TLC

VARIABLES
    variant,       \* the class of the instance
    fixed_bids,    \* self.fixed_bids (a Python list)
    free_bids,     \* self.free_bids
    ls,            \* self.ls, the fd.LinearSolver
    A,             \* self.A, the operator (A or transpose(I)*A*I)
    interpolated,  \* self.interpolated
    Aksp,          \* self.Aksp, the direct solver
    ret,           \* the last call: what was called and how it ended
    log,           \* the stages the last get_impl call went through, in order
    completed,     \* history: some get_impl call has returned normally
    arg            \* the arguments (V, I, assembled matrix) drawn at start

vars == <<variant, fixed_bids, free_bids, ls, A, interpolated, Aksp, ret, log,
          completed, arg>>

(***************************************************************************)
(* Bounds of the model.                                                    *)
(***************************************************************************)
MaxBid == 2      \* boundary ids are 1..MaxBid
MaxDim == 3      \* V.value_size ranges over 1..MaxDim
NDof == 2        \* degrees of freedom of V (size of the assembled matrix)
NCtrl == 2       \* columns of the interpolation matrix I

None == <<>>
Some(x) == <<x>>
Absent == <<>>
IsSet(a) == Len(a) > 0
Val(a) == a[1]

Variants == {"H1", "Laplace", "Elasticity"}
Bids == 1..MaxBid
Dims == 1..MaxDim

(***************************************************************************)
(* Python lists.                                                           *)
(***************************************************************************)
RECURSIVE SeqsUpTo(_, _)
SeqsUpTo(S, n) ==
    IF n = 0 THEN {<<>>}
    ELSE LET shorter == SeqsUpTo(S, n - 1)
         IN shorter \cup {Append(s, x) : s \in shorter, x \in S}

Elems(l) == {l[i] : i \in 1..Len(l)}

\* list(V.mesh().topology.exterior_facets.unique_markers): the markers,
\* each once, in increasing order.
RECURSIVE unique_markers(_)
unique_markers(S) ==
    IF S = {} THEN <<>>
    ELSE LET m == CHOOSE x \in S : \A y \in S : x <= y
         IN <<m>> \o unique_markers(S \ {m})

\* list.remove(x): drops the first occurrence of x; ValueError when x is
\* not in the list (the list is then left as it was).
FirstIndex(l, x) == CHOOSE i \in 1..Len(l) : l[i] = x /\ \A j \in 1..(i - 1) : l[j] # x

ListRemoveKeepsAll(l, x) == [raised |-> ~(x \in Elems(l)), list |-> l]

ListRemoveIgnoresMissing(l, x) ==
    [raised |-> FALSE, list |-> SelectSeq(l, LAMBDA y : y # x)]

list_remove(l, x) ==
    IF x \in Elems(l)
    THEN LET i == FirstIndex(l, x)
         IN [raised |-> FALSE,
             list |-> SubSeq(l, 1, i - 1) \o SubSeq(l, i + 1, Len(l))]
    ELSE [raised |-> TRUE, list |-> l]

(***************************************************************************)
(* Vectors and matrices (PETSc.Mat, PETSc.Vec), exact over the integers.   *)
(***************************************************************************)
RECURSIVE SumTo(_, _)
SumTo(f, n) == IF n = 0 THEN 0 ELSE f[n] + SumTo(f, n - 1)

NRows(M) == Len(M)
NCols(M) == IF Len(M) = 0 THEN 0 ELSE Len(M[1])

\* A function on 1..n as the sequence of its values.
AsSeq(f) == <<>> \o f

Dot(x, y) == SumTo([k \in 1..Len(x) |-> x[k] * y[k]], Len(x))
MatVec(M, x) == AsSeq([i \in 1..NRows(M) |-> Dot(M[i], x)])
Column(M, j) == AsSeq([i \in 1..NRows(M) |-> M[i][j]])
Transpose(M) == AsSeq([j \in 1..NCols(M) |-> Column(M, j)])
MatMul(P, Q) ==
    LET Qt == Transpose(Q)
    IN AsSeq([i \in 1..NRows(P) |->
                AsSeq([j \in 1..NCols(Q) |-> Dot(P[i], Qt[j])])])
MatAdd(P, Q) ==
    AsSeq([i \in 1..NRows(P) |->
             AsSeq([j \in 1..NCols(P) |-> P[i][j] + Q[i][j]])])

ZeroMat(n, m) == AsSeq([i \in 1..n |-> AsSeq([j \in 1..m |-> 0])])
Ident(n) ==
    AsSeq([i \in 1..n |-> AsSeq([j \in 1..n |-> IF i = j THEN 1 ELSE 0])])
UnitVec(n, k) == AsSeq([i \in 1..n |-> IF i = k THEN 1 ELSE 0])

Frob(P, Q) ==
    SumTo([i \in 1..NRows(P) |-> Dot(P[i], Q[i])], NRows(P))

(***************************************************************************)
(* Function spaces and vector fields.  V is known to get_impl through its  *)
(* mesh's exterior facet markers and its value_size.  A field is the       *)
(* affine map x |-> M x + c; its gradient is the constant matrix M.        *)
(***************************************************************************)
\* The meshes number their boundary pieces 1..k, for k from 0 to MaxBid.
Spaces == [markers : {1..k : k \in 0..MaxBid}, dim : Dims]

ConstantField(dim, k) == [M |-> ZeroMat(dim, dim), c |-> UnitVec(dim, k)]
LinearField(M) == [M |-> M, c |-> [i \in 1..Len(M) |-> 0]]

(***************************************************************************)
(* InnerProduct.get_params.                                                *)
(***************************************************************************)
get_params ==
    [ksp_rtol |-> "1e-11", ksp_atol |-> "1e-11", ksp_stol |-> "1e-16",
     ksp_type |-> "cg", pc_type |-> "hypre", pc_hypre_type |-> "boomeramg"]

(***************************************************************************)
(* get_nullspace of the three variants: None, a list of fields, or         *)
(* NotImplementedError.                                                    *)
(***************************************************************************)
H1_get_nullspace(V) == [raised |-> FALSE, res |-> None]

Laplace_get_nullspace(V) ==
    IF V.dim = 2
    THEN [raised |-> FALSE,
          res |-> Some(<<ConstantField(2, 1), ConstantField(2, 2)>>)]
    ELSE IF V.dim = 3
    THEN [raised |-> FALSE,
          res |-> Some(<<ConstantField(3, 1), ConstantField(3, 2),
                         ConstantField(3, 3)>>)]
    ELSE [raised |-> TRUE, res |-> None]

Elasticity_get_nullspace(V) ==
    IF V.dim = 2
    THEN [raised |-> FALSE,
          res |-> Some(<<ConstantField(2, 1), ConstantField(2, 2),
                         \* as_vector([X[1], -X[0]])
                         LinearField(<< <<0, 1>>,
                                        <<-1, 0>> >>)>>)]
    ELSE IF V.dim = 3
    THEN [raised |-> FALSE,
          res |-> Some(<<ConstantField(3, 1), ConstantField(3, 2),
                         ConstantField(3, 3),
                         \* as_vector([-X[1], X[0], 0])
                         LinearField(<< <<0, -1, 0>>,
                                        <<1, 0, 0>>,
                                        <<0, 0, 0>> >>),
                         \* as_vector([-X[2], 0, X[0]])
                         LinearField(<< <<0, 0, -1>>,
                                        <<0, 0, 0>>,
                                        <<1, 0, 0>> >>),
                         \* as_vector([0, X[2], X[1]])
                         LinearField(<< <<0, 0, 0>>,
                                        <<0, 0, 1>>,
                                        <<0, 1, 0>> >>)>>)]
    ELSE [raised |-> TRUE, res |-> None]

get_nullspace(cls, V) ==
    IF cls = "H1" THEN H1_get_nullspace(V)
    ELSE IF cls = "Laplace" THEN Laplace_get_nullspace(V)
    ELSE Elasticity_get_nullspace(V)

(***************************************************************************)
(* get_weak_form of the three variants, as the symbolic form: the terms    *)
(* under the integral and the coefficient mu.                              *)
(***************************************************************************)
MuFixed == 1
MuFree == 10

ConstantMu == [constant |-> TRUE, value |-> 1, bc_fix |-> None, bc_free |-> None]

\* ElasticityInnerProduct.get_mu: the solution of a diffusion problem with
\* Dirichlet value 1 on the fixed and 10 on the free boundary.
get_mu(fixed, free) ==
    [constant |-> FALSE, value |-> 0,
     bc_fix |-> Some([value |-> MuFixed, bids |-> fixed]),
     bc_free |-> Some([value |-> MuFree, bids |-> free])]

H1_get_weak_form == [terms |-> {"grad", "mass"}, mu |-> ConstantMu]

Laplace_get_weak_form == [terms |-> {"grad"}, mu |-> ConstantMu]

Elasticity_get_weak_form(fixed, free) ==
    [terms |-> {"symgrad"},
     mu |-> IF Len(fixed) > 0 THEN get_mu(fixed, free) ELSE ConstantMu]

get_weak_form(cls, fixed, free) ==
    IF cls = "H1" THEN H1_get_weak_form
    ELSE IF cls = "Laplace" THEN Laplace_get_weak_form
    ELSE Elasticity_get_weak_form(fixed, free)

(***************************************************************************)
(* The value of a form on two affine fields u and v, over a domain of unit *)
(* measure and with constant mu, times 4 (sym(grad u) = (M + M^T)/2):      *)
(*    inner(grad(u), grad(v))*dx            = sum_ij M_ij N_ij             *)
(*    inner(sym(grad(u)), sym(grad(v)))*dx  = sum_ij (M+M^T)_ij (N+N^T)_ij / 4 *)
(* The forms evaluated this way have no mass term.                         *)
(***************************************************************************)
TwiceSym(M) == MatAdd(M, Transpose(M))

FormValue4(a, u, v) ==
    a.mu.value *
      ( (IF "grad" \in a.terms THEN 4 * Frob(u.M, v.M) ELSE 0)
      + (IF "symgrad" \in a.terms THEN Frob(TwiceSym(u.M), TwiceSym(v.M)) ELSE 0) )

(***************************************************************************)
(* get_impl, stage by stage.  A run of get_impl is the record s of the     *)
(* attributes it assigns, its locals nsp and bc, the log of the stages it  *)
(* reached and exc, the exception that ended it ("none" while it runs).    *)
(* A stage does nothing once an exception has been raised.                 *)
(***************************************************************************)
Enter(l, stage) == Append(l, <<stage, 0>>)

\* for bid in self.fixed_bids: self.free_bids.remove(bid)
RECURSIVE remove_fixed(_, _)
remove_fixed(l, fixed) ==
    IF fixed = <<>> THEN [raised |-> FALSE, list |-> l]
    ELSE LET r == list_remove(l, Head(fixed))
         IN IF r.raised THEN r ELSE remove_fixed(r.list, Tail(fixed))

\* Lines 41-44: the boundary classification.
ClassifyBoundary(s, V, fixed) ==
    LET r == remove_fixed(unique_markers(V.markers), fixed)
    IN [s EXCEPT !.free_bids = Some(r.list),
                 !.log = Enter(@, "free_bids"),
                 !.exc = IF r.raised THEN "ValueError" ELSE "none"]

BuildNullspaceAlways(s, cls, V, fixed) ==
    IF s.exc # "none" THEN s
    ELSE LET r == get_nullspace(cls, V)
             asked == [s EXCEPT !.log = Enter(@, "get_nullspace")]
         IN IF r.raised THEN [asked EXCEPT !.exc = "NotImplementedError"]
            ELSE IF r.res = None THEN asked
            ELSE [asked EXCEPT
                    !.nsp = Some([basis |-> Val(r.res), orthonormal |-> TRUE]),
                    !.log = Enter(Enter(@, "VectorSpaceBasis"), "orthonormalize")]

\* Lines 49-54: the nullspace, asked for only when no boundary is fixed.
BuildNullspace(s, cls, V, fixed) ==
    IF s.exc # "none" \/ Len(fixed) # 0 THEN s
    ELSE LET r == get_nullspace(cls, V)
             asked == [s EXCEPT !.log = Enter(@, "get_nullspace")]
         IN IF r.raised THEN [asked EXCEPT !.exc = "NotImplementedError"]
            ELSE IF r.res = None THEN asked
            ELSE [asked EXCEPT
                    !.nsp = Some([basis |-> Val(r.res), orthonormal |-> TRUE]),
                    !.log = Enter(Enter(@, "VectorSpaceBasis"), "orthonormalize")]

\* Lines 57-67: the homogeneous Dirichlet condition on the fixed boundary.
BuildDirichlet(s, V, fixed) ==
    IF s.exc # "none" \/ ~(Len(fixed) > 0) THEN s
    ELSE IF V.dim = 2 \/ V.dim = 3
    THEN [s EXCEPT !.bc = Some([value |-> [i \in 1..V.dim |-> 0],
                                bids |-> fixed]),
                   !.log = Enter(@, "DirichletBC")]
    ELSE [s EXCEPT !.exc = "NotImplementedError"]

\* Lines 69-75: the weak form, the assembled matrix (Aasm is what
\* fd.assemble returns) and the iterative solver.
AssembleAndBind(s, cls, fixed, Aasm) ==
    IF s.exc # "none" THEN s
    ELSE LET a == get_weak_form(cls, fixed, Val(s.free_bids))
         IN [s EXCEPT
               !.ls = Some([A |-> Aasm, form |-> a, bcs |-> s.bc,
                            solver_parameters |-> get_params,
                            nullspace |-> s.nsp,
                            transpose_nullspace |-> s.nsp]),
               !.A = Some(Aasm),
               !.interpolated = Some(FALSE),
               !.log = Enter(Enter(Enter(@, "get_weak_form"), "assemble"),
                             "LinearSolver")]

\* A.PtAP(I): transpose(I)*A*I; PETSc refuses an I whose row count is not
\* the column count of A.
PtAP(M, I) ==
    IF NRows(I) # NCols(M) THEN [raised |-> TRUE, mat |-> M]
    ELSE [raised |-> FALSE, mat |-> MatMul(Transpose(I), MatMul(M, I))]

\* np.linalg.norm(vals) < 1e-13.  The entries are integers, so the norm is
\* below the threshold exactly when the sum of the squares is below 1.
NormSquared(vals) == Dot(vals, vals)
BelowThreshold(vals) == NormSquared(vals) < 1

\* Lines 84-92: the rows found (nearly) zero, in increasing order.
ZeroRows(M) ==
    SelectSeq([r \in 1..NRows(M) |-> r], LAMBDA r : BelowThreshold(M[r]))

\* ITAI.setValue(row, row, 1.0)
setValue(M, row, col, x) == [M EXCEPT ![row][col] = x]

PatchFirstRowOnly(M, rows) ==
    IF rows = <<>> THEN M ELSE setValue(M, Head(rows), Head(rows), 1)

\* Lines 93-94: for row in zero_rows: ITAI.setValue(row, row, 1.0)
RECURSIVE PatchRows(_, _)
PatchRows(M, rows) ==
    IF rows = <<>> THEN M
    ELSE PatchRows(setValue(M, Head(rows), Head(rows), 1), Tail(rows))

PatchLog(l, rows) ==
    l \o [k \in 1..Len(rows) |-> <<"setValue", rows[k]>>]

InterpolateFactorsUnpatched(s, I) ==
    IF s.exc # "none" \/ I = None THEN s
    ELSE LET flagged == [s EXCEPT !.interpolated = Some(TRUE),
                                  !.log = Enter(@, "PtAP")]
             p == PtAP(Val(s.A), Val(I))
         IN IF p.raised THEN [flagged EXCEPT !.exc = "PETSc.Error"]
            ELSE LET zero_rows == ZeroRows(p.mat)
                     ITAI == PatchRows(p.mat, zero_rows)
                 IN [flagged EXCEPT
                       !.A = Some(ITAI),
                       !.Aksp = Some([operators |-> p.mat, type |-> "preonly",
                                      pc |-> "cholesky", factor |-> "mumps"]),
                       !.log = Enter(Enter(Enter(PatchLog(@, zero_rows),
                                                 "ITAI.assemble"),
                                           "KSP.setOperators"), "KSP.setUp")]

\* Lines 79-108: the interpolated operator and its direct solver.
Interpolate(s, I) ==
    IF s.exc # "none" \/ I = None THEN s
    ELSE LET flagged == [s EXCEPT !.interpolated = Some(TRUE),
                                  !.log = Enter(@, "PtAP")]
             p == PtAP(Val(s.A), Val(I))
         IN IF p.raised THEN [flagged EXCEPT !.exc = "PETSc.Error"]
            ELSE LET zero_rows == ZeroRows(p.mat)
                     ITAI == PatchRows(p.mat, zero_rows)
                 IN [flagged EXCEPT
                       !.A = Some(ITAI),
                       !.Aksp = Some([operators |-> ITAI, type |-> "preonly",
                                      pc |-> "cholesky", factor |-> "mumps"]),
                       !.log = Enter(Enter(Enter(PatchLog(@, zero_rows),
                                                 "ITAI.assemble"),
                                           "KSP.setOperators"), "KSP.setUp")]

\* The whole of get_impl(V, I), from the instance as it is.
RunGetImpl(V, I, Aasm) ==
    LET s0 == [free_bids |-> free_bids, ls |-> ls, A |-> A,
               interpolated |-> interpolated, Aksp |-> Aksp,
               nsp |-> None, bc |-> None, log |-> <<>>, exc |-> "none"]
        s1 == ClassifyBoundary(s0, V, fixed_bids)
        s2 == BuildNullspace(s1, variant, V, fixed_bids)
        s3 == BuildDirichlet(s2, V, fixed_bids)
        s4 == AssembleAndBind(s3, variant, fixed_bids, Aasm)
    IN Interpolate(s4, I)

get_impl(V, I, Aasm) ==
    \E s \in {RunGetImpl(V, I, Aasm)} :
       /\ free_bids' = s.free_bids
       /\ ls' = s.ls
       /\ A' = s.A
       /\ interpolated' = s.interpolated
       /\ Aksp' = s.Aksp
       /\ log' = s.log
       /\ ret' = [op |-> "get_impl",
                  outcome |-> IF s.exc = "none" THEN "ok" ELSE s.exc,
                  V |-> Some(V), I |-> I, value |-> None]
       /\ completed' = (completed \/ s.exc = "none")
       /\ UNCHANGED <<variant, fixed_bids, arg>>

(***************************************************************************)
(* eval and riesz_map.                                                     *)
(***************************************************************************)
Returned(op, outcome, value) ==
    [op |-> op, outcome |-> outcome, V |-> None, I |-> None, value |-> value]

\* Lines 112-116: A_u = A*u, then v.A_u.  self.A is read first.  u and v
\* are read through vec_ro; the value holds them as they are after the call.
EvalResult(u, v) ==
    IF ~IsSet(A) THEN Returned("eval", "AttributeError", None)
    ELSE IF Len(u) # NCols(Val(A)) \/ Len(v) # NRows(Val(A))
    THEN Returned("eval", "PETSc.Error", None)
    ELSE Returned("eval", "ok",
                  Some([result |-> Dot(v, MatVec(Val(A), u)),
                        u |-> u, v |-> v]))

EvalReassembles(u, v) ==
    /\ ret' = EvalResult(u, v)
    /\ log' = Enter(log, "assemble")
    /\ A' = IF IsSet(A) THEN Some(MatAdd(Val(A), ZeroMat(NRows(Val(A)), NCols(Val(A)))))
            ELSE A
    /\ ls' = Absent
    /\ UNCHANGED <<variant, fixed_bids, free_bids, interpolated, Aksp,
                   completed, arg>>

eval(u, v) ==
    /\ ret' = EvalResult(u, v)
    /\ UNCHANGED <<variant, fixed_bids, free_bids, ls, A, interpolated, Aksp,
                   log, completed, arg>>

\* Lines 126-129: the solver riesz_map reads, or the attribute it misses.
RieszSolver ==
    IF ~IsSet(interpolated) THEN [raised |-> TRUE, name |-> "none", mat |-> <<>>]
    ELSE IF Val(interpolated)
    THEN IF ~IsSet(Aksp) THEN [raised |-> TRUE, name |-> "none", mat |-> <<>>]
         ELSE [raised |-> FALSE, name |-> "Aksp", mat |-> Val(Aksp).operators]
    ELSE IF ~IsSet(ls) THEN [raised |-> TRUE, name |-> "none", mat |-> <<>>]
         ELSE [raised |-> FALSE, name |-> "ls", mat |-> Val(ls).A]

\* riesz_map(v, out): the solver writes into out a solution of
\* (operator)*out = v; which one, when the operator has several, is the
\* solver's choice.  v is read through vec_ro.
riesz_map(v, out) ==
    /\ LET k == RieszSolver
       IN IF k.raised THEN ret' = Returned("riesz_map", "AttributeError", None)
          ELSE IF Len(v) # NRows(k.mat) \/ Len(out) # NCols(k.mat)
          THEN ret' = Returned("riesz_map", "PETSc.Error", None)
          ELSE /\ MatVec(k.mat, out) = v
               /\ ret' = Returned("riesz_map", "ok",
                                  Some([solver |-> k.name, out |-> out,
                                        v |-> v]))
    /\ UNCHANGED <<variant, fixed_bids, free_bids, ls, A, interpolated, Aksp,
                   log, completed, arg>>

(***************************************************************************)
(* The arguments the calls are made with.                                  *)
(***************************************************************************)
\* Vectors the control vectors are drawn from: (1, 0, .., 0) and (1, .., 1).
TestVecs(n) == {UnitVec(n, 1), AsSeq([i \in 1..n |-> 1])}

\* Vectors a solve may write into out: those, and the zero vector.
OutVecs(n) == TestVecs(n) \cup {AsSeq([i \in 1..n |-> 0])}

\* What fd.assemble returns on a chain of NDof nodes.  The term
\* inner(grad(u), grad(v))*dx (and its symmetric variant) gives the stiffness
\* matrix of the chain, which maps the constant vector to zero; the term
\* inner(u, v)*dx of H1 adds the (lumped) mass matrix, the identity.
Stiffness(n) ==
    AsSeq([i \in 1..n |-> AsSeq([j \in 1..n |->
        IF i = j THEN (IF i = 1 \/ i = n THEN 1 ELSE 2)
        ELSE IF i = j + 1 \/ j = i + 1 THEN -1 ELSE 0])])

\* The ends of the chain are its boundary: odd ids mark the first node,
\* even ids the last.
BoundaryNode(bid) == IF bid % 2 = 1 THEN 1 ELSE NDof

\* bcs=bc: the row and the column of a node on the fixed boundary are
\* those of the identity.
ApplyDirichlet(M, fixed) ==
    LET nodes == {BoundaryNode(b) : b \in Elems(fixed)}
    IN AsSeq([i \in 1..NRows(M) |-> AsSeq([j \in 1..NCols(M) |->
          IF i \in nodes \/ j \in nodes THEN (IF i = j THEN 1 ELSE 0)
          ELSE M[i][j]])])

AssembledSamples(cls, fixed) ==
    {ApplyDirichlet(IF cls = "H1" THEN MatAdd(Stiffness(NDof), Ident(NDof))
                    ELSE Stiffness(NDof), fixed)}

\* Interpolation arguments: none, a matrix that reaches the first control
\* coordinate only, and a matrix with one row too many for V.
FirstColumn(n, m) == [i \in 1..n |-> [j \in 1..m |-> IF j = 1 THEN 1 ELSE 0]]
InterpSamples ==
    {None, Some(FirstColumn(NDof, NCtrl)), Some(FirstColumn(NDof + 1, NCtrl))}

NoArg ==
    [V |-> [markers |-> Bids, dim |-> 2], I |-> None, Aasm |-> Ident(NDof),
     v |-> LinearField(ZeroMat(2, 2))]

(***************************************************************************)
(* The instance's life: __init__(fixed_bids), then any calls.              *)
(***************************************************************************)
Constructed(cls, fixed) ==
    /\ variant = cls
    /\ fixed_bids = fixed
    /\ free_bids = Absent
    /\ ls = Absent
    /\ A = Absent
    /\ interpolated = Absent
    /\ Aksp = Absent
    /\ log = <<>>
    /\ completed = FALSE
    /\ ret = Returned("__init__", "ok", None)

\* The lists fixed_bids is drawn from: up to two ids, in any order, repeats
\* included.
FixedLists == SeqsUpTo(Bids, 2)

Init ==
    /\ \E cls \in Variants, fixed \in FixedLists :
          Constructed(cls, fixed)
    /\ arg = NoArg

OperatorSize == IF IsSet(A) THEN NCols(Val(A)) ELSE NDof

CallGetImpl ==
    \E V \in Spaces, I \in InterpSamples,
       Aasm \in AssembledSamples(variant, fixed_bids) :
        get_impl(V, I, Aasm)

CallEval == \E u \in TestVecs(OperatorSize), v \in TestVecs(OperatorSize) : eval(u, v)

\* riesz_map is called with d = A*p, the dual vector of a primal p.
CallRieszMap ==
    \E p \in TestVecs(OperatorSize), out \in OutVecs(OperatorSize) :
        riesz_map(IF IsSet(A) THEN MatVec(Val(A), p) ELSE p, out)

Next == CallGetImpl \/ CallEval \/ CallRieszMap

Spec == Init /\ [][Next]_vars

(***************************************************************************)
(* The interpolated operator on its own: one instance, bound once with an  *)
(* assembled matrix and an interpolation matrix drawn at the start.        *)
(***************************************************************************)
Entries == {-1, 0, 1}
Weights == {0, 1}

\* What fd.assemble may return: a symmetric matrix, sparse as the matrix of
\* a chain of nodes is (an entry couples a node with itself or a neighbour).
AssembledMats(n) ==
    {M \in [1..n -> [1..n -> Entries]] :
        \A i \in 1..n, j \in 1..n :
            /\ M[i][j] = M[j][i]
            /\ (i - j > 1 \/ j - i > 1) => M[i][j] = 0}

InterpMats(n, m) == [1..n -> [1..m -> Weights]]

InitPatch ==
    /\ Constructed("H1", <<>>)
    /\ \E I \in InterpMats(NDof, NCtrl), Aasm \in AssembledMats(NDof) :
          arg = [NoArg EXCEPT !.I = Some(I), !.Aasm = Aasm]

BindInterpolated ==
    /\ ret.op = "__init__"
    /\ get_impl(arg.V, arg.I, arg.Aasm)

NextPatch == BindInterpolated

SpecPatch == InitPatch /\ [][NextPatch]_vars

(***************************************************************************)
(* The nullspace fields against the weak form: what eval(n, v) is for a    *)
(* field n of get_nullspace(V) and an affine field v, when no boundary is  *)
(* fixed (the operator is then the assembled form itself).                 *)
(***************************************************************************)
TestFields(dim) == {LinearField(N) : N \in [1..dim -> [1..dim -> Weights]]}

InitNullspace ==
    /\ \E cls \in Variants : Constructed(cls, <<>>)
    /\ \E dim \in Dims : \E v \in TestFields(dim) :
          arg = [NoArg EXCEPT !.V = [markers |-> Bids, dim |-> dim], !.v = v]

EvalOnNullspace ==
    /\ ret.op = "__init__"
    /\ LET r == get_nullspace(variant, arg.V)
           a == get_weak_form(variant, fixed_bids, unique_markers(arg.V.markers))
       IN ret' =
            IF r.raised THEN Returned("eval_nullspace", "NotImplementedError", None)
            ELSE IF r.res = None THEN Returned("eval_nullspace", "ok", Some(<<>>))
            ELSE Returned("eval_nullspace", "ok",
                          Some([k \in 1..Len(Val(r.res)) |->
                                  FormValue4(a, Val(r.res)[k], arg.v)]))
    /\ UNCHANGED <<variant, fixed_bids, free_bids, ls, A, interpolated, Aksp,
                   log, completed, arg>>

NextNullspace == EvalOnNullspace

SpecNullspace == InitNullspace /\ [][NextNullspace]_vars

(***************************************************************************)
(* What the claims speak of.                                               *)
(***************************************************************************)
Reached(stage) == \E k \in 1..Len(log) : log[k][1] = stage
AfterGetImpl == ret.op = "get_impl"
LastV == Val(ret.V)
FixedSet == Elems(fixed_bids)
FixedValid == FixedSet \subseteq LastV.markers

\* C1: after a get_impl(V) that completes, with every fixed id a boundary
\* id of V, free_bids and fixed_bids are disjoint, their union is the set
\* of boundary ids of V, and free_bids is the boundary ids minus fixed_bids.
C1_FreeFixedPartition ==
    (AfterGetImpl /\ ret.outcome = "ok" /\ FixedValid) =>
        /\ IsSet(free_bids)
        /\ Elems(Val(free_bids)) \cap FixedSet = {}
        /\ Elems(Val(free_bids)) \cup FixedSet = LastV.markers
        /\ Elems(Val(free_bids)) = LastV.markers \ FixedSet

C1_Witness ==
    /\ AfterGetImpl /\ ret.outcome = "ok" /\ FixedValid
    /\ fixed_bids # <<>>
    /\ IsSet(free_bids) /\ Val(free_bids) # <<>>

\* C2: a get_impl(V) whose fixed_bids hold an id that is not a boundary id
\* of V raises (ValueError, from list.remove) in the boundary
\* classification: no later stage is entered, and the call stores no
\* operator, solver or interpolation flag.  (A step that ends with ret.op =
\* "get_impl" is a get_impl call, and ret.V is the V it was given.)
C2_InvalidFixedIdFailsEagerly ==
    [][(ret'.op = "get_impl" /\ ~(FixedSet \subseteq Val(ret'.V).markers)) =>
          /\ ret'.outcome = "ValueError"
          /\ log' = <<<<"free_bids", 0>>>>
          /\ UNCHANGED <<ls, A, interpolated, Aksp>>]_vars

C2_Witness ==
    /\ AfterGetImpl /\ ~FixedValid
    /\ ret.outcome = "ValueError"
    /\ Len(fixed_bids) = 2 /\ fixed_bids[1] \in LastV.markers

\* C3 (as claimed): in every variant and for every fixed_bids, get_impl on a
\* space whose value dimension is not 2 or 3 raises and does not complete.
C3_DimensionGuardEveryVariant ==
    (AfterGetImpl /\ LastV.dim \notin {2, 3}) =>
        ret.outcome \in {"NotImplementedError", "ValueError"}

\* C4: when get_impl creates the solver, a nullspace is built,
\* orthonormalized and attached (as nullspace and transpose nullspace) if
\* and only if fixed_bids is empty and the variant's get_nullspace returns
\* a basis (Laplace, Elasticity); with fixed_bids non-empty get_nullspace is
\* not asked, the zero Dirichlet condition is on exactly fixed_bids, and the
\* solver has no nullspace.
C4_NullspaceIffNoFixedBoundary ==
    (AfterGetImpl /\ Reached("LinearSolver")) =>
        LET solver == Val(ls)
            declared == variant \in {"Laplace", "Elasticity"}
        IN /\ IsSet(solver.nullspace) <=> (fixed_bids = <<>> /\ declared)
           /\ solver.transpose_nullspace = solver.nullspace
           /\ Reached("orthonormalize") <=> IsSet(solver.nullspace)
           /\ IsSet(solver.nullspace) =>
                 /\ Val(solver.nullspace).orthonormal
                 /\ Len(Val(solver.nullspace).basis) > 0
           /\ fixed_bids # <<>> =>
                 /\ ~Reached("get_nullspace")
                 /\ solver.bcs = Some([value |-> [i \in 1..LastV.dim |-> 0],
                                       bids |-> fixed_bids])
                 /\ solver.nullspace = None

C4_Witness ==
    /\ AfterGetImpl /\ ret.outcome = "ok" /\ Reached("LinearSolver")
    /\ variant = "Elasticity" /\ fixed_bids = <<>>
    /\ IsSet(Val(ls).nullspace)
    /\ Val(ls).transpose_nullspace = Val(ls).nullspace

\* C5 (as claimed): eval and riesz_map return a result only once a get_impl
\* call has succeeded.
C5_ResultOnlyWhenBound ==
    (ret.op \in {"eval", "riesz_map"} /\ ret.outcome = "ok") => completed

\* C6: after a get_impl given I, the stored operator is transpose(I)*A*I
\* with the diagonal entry of every zero row set to 1 and every other entry
\* as computed; it has no zero row; the patches are all made before the one
\* final assembly, which is before the direct solver is set up on it.
Sandwich(M, I) ==
    AsSeq([r \in 1..NCols(I) |-> AsSeq([c \in 1..NCols(I) |->
        SumTo([k \in 1..NRows(I) |->
                 SumTo([l \in 1..NRows(I) |-> I[k][r] * M[k][l] * I[l][c]],
                       NRows(I))],
              NRows(I))])])

IsZeroRow(P, r) == \A c \in 1..NCols(P) : P[r][c] = 0

LogIndex(entry) == {k \in 1..Len(log) : log[k] = entry}

C6_ZeroRowsPatchedBeforeFactorization ==
    (AfterGetImpl /\ ret.outcome = "ok" /\ ret.I # None) =>
        \E P \in {Sandwich(Val(ls).A, Val(ret.I))} :
        LET J == Val(A)
            n == NCols(Val(ret.I))
            assembled == LogIndex(<<"ITAI.assemble", 0>>)
            setup == LogIndex(<<"KSP.setUp", 0>>)
        IN /\ interpolated = Some(TRUE)
           /\ NRows(J) = n /\ NCols(J) = n
           /\ \A r \in 1..n, c \in 1..n :
                 J[r][c] = IF r = c /\ IsZeroRow(P, r) THEN 1 ELSE P[r][c]
           /\ \A r \in 1..n : ~IsZeroRow(J, r)
           /\ IsSet(Aksp) /\ Val(Aksp).operators = J
           /\ Cardinality(assembled) = 1
           /\ Cardinality(setup) = 1
           /\ \A r \in 1..n :
                 IF IsZeroRow(P, r)
                 THEN \E k \in LogIndex(<<"setValue", r>>) :
                         \A a \in assembled : k < a
                 ELSE LogIndex(<<"setValue", r>>) = {}
           /\ \A a \in assembled, u \in setup : a < u

C6_Witness ==
    /\ AfterGetImpl /\ ret.outcome = "ok" /\ ret.I # None
    /\ \E r \in 1..NCtrl : /\ IsZeroRow(Sandwich(Val(ls).A, Val(ret.I)), r)
                           /\ Val(A)[r][r] = 1
    /\ \E r \in 1..NCtrl : /\ ~IsZeroRow(Sandwich(Val(ls).A, Val(ret.I)), r)
                           /\ Val(A)[r] = Sandwich(Val(ls).A, Val(ret.I))[r]
                           /\ Val(A)[r][r] > 1
    /\ \E r \in 1..NDof, c \in 1..NDof : Val(ls).A[r][c] < 0
    /\ Reached("setValue") /\ Reached("KSP.setUp")

\* C7 (as claimed): for the Elasticity variant with no fixed boundary, every
\* field of get_nullspace has zero symmetric gradient, so the form vanishes
\* on it against every v.
C7_ElasticityNullspaceAnnihilated ==
    (ret.op = "eval_nullspace" /\ ret.outcome = "ok" /\ variant = "Elasticity") =>
        \A k \in 1..Len(Val(ret.value)) : Val(ret.value)[k] = 0

\* The most recent get_impl call returned normally (its last stage is the
\* last statement of one of its two paths), and whether it was given I.
LastStage == log[Len(log)][1]
Bound == log # <<>> /\ LastStage \in {"LinearSolver", "KSP.setUp"}
GivenI == Reached("PtAP")

RECURSIVE Det(_)
Det(M) ==
    IF NRows(M) = 1 THEN M[1][1]
    ELSE SumTo([j \in 1..NRows(M) |->
                  (IF j % 2 = 1 THEN 1 ELSE -1) * M[1][j] *
                  Det([i \in 1..(NRows(M) - 1) |->
                         [c \in 1..(NRows(M) - 1) |->
                            M[i + 1][IF c < j THEN c ELSE c + 1]]])],
               NRows(M))

RieszReturned == ret.op = "riesz_map" /\ ret.outcome = "ok"

C9_EvalAndRieszMapFrame ==
    [][ret'.op \in {"eval", "riesz_map"} =>
          /\ UNCHANGED <<A, ls, Aksp, interpolated, fixed_bids, free_bids,
                         log, variant>>
          /\ (ret'.op = "eval" /\ ret'.outcome = "ok") =>
                LET r == Val(ret'.value)
                IN /\ r.u \in TestVecs(OperatorSize)
                   /\ r.v \in TestVecs(OperatorSize)
                   /\ r.result = Dot(r.v, MatVec(Val(A), r.u))
          /\ (ret'.op = "riesz_map" /\ ret'.outcome = "ok") =>
                LET r == Val(ret'.value)
                IN /\ MatVec(RieszSolver.mat, r.out) = r.v
                   /\ \E p \in TestVecs(OperatorSize) :
                         r.v = MatVec(Val(A), p)]_vars

C9_Witness ==
    /\ ret.op = "eval" /\ ret.outcome = "ok" /\ Bound /\ GivenI
    /\ IsSet(Aksp) /\ Val(Aksp).operators = Val(A)
    /\ Val(ret.value).result > 0

\* C10 (as claimed): whenever eval and riesz_map can both run, after any
\* get_impl calls, those that raised included, the solver riesz_map uses
\* was built on the operator eval multiplies by.
C10_SolverBuiltOnEvalOperator ==
    (IsSet(A) /\ ~RieszSolver.raised) =>
        /\ RieszSolver.mat = Val(A)
        /\ interpolated = Some(TRUE) => Val(Aksp).operators = Val(A)
        /\ interpolated = Some(FALSE) => Val(ls).A = Val(A)

====
